---- MODULE Spec2Model ----
(***************************************************************************)
(* Model of the expression renderer of kaitai_struct_testgen:              *)
(*   src/src/ast/utils.rs   PositiveFiniteF64 (TryFrom<f64>, value, Eq,    *)
(*                          Hash, Ord)                                     *)
(*   src/src/ast.rs         Expr, UnaryOp, BinaryOp                        *)
(*   src/src/translator.rs  translate and its helpers                      *)
(*                                                                         *)
(* Text is a sequence of one-character strings.  An f64 is its IEEE-754    *)
(* bit pattern, split into sign (1 bit), biased exponent (11 bits) and the *)
(* 52-bit fraction as two 26-bit halves (mh high, ml low).  A u64 is four  *)
(* 16-bit limbs, least significant first.                                  *)
(***************************************************************************)
EXTENDS Integers, Sequences, FiniteSets, TLC

VARIABLES
    raw,    \* the f64 last handed to PositiveFiniteF64::try_from
    res,    \* what that call returned
    held,   \* a PositiveFiniteF64 the caller kept from an earlier call
    ord,    \* outcome of the last comparison of held with the newest value
    tree,   \* the expression tree the caller has built
    arg,    \* the caller's integer behind the tree's first leaf, if it is an Int
    out,    \* outcome of the last translate(&tree)
    kept,   \* a (tree, text) pair the caller kept from an earlier translate
    calls   \* the calls of translate made by the last translate(&tree), in order

vars == <<raw, res, held, ord, tree, arg, out, kept, calls>>

floatVars == <<raw, res, held, ord>>
treeVars == <<tree, arg, out, kept, calls>>

(***************************************************************************)
(* Bounds of the model.                                                    *)
(***************************************************************************)
\* whole-valued doubles 0.0, 1.0, ..., MaxWhole.0 are among the inputs
MaxWhole == 20
\* the caller nests operator and access nodes at most this deep
MaxDepth == 2
\* and at most this deep while it keeps an earlier rendering to compare with
MaxKeptDepth == 1

(***************************************************************************)
(* f64: IEEE-754 binary64 bit patterns.                                    *)
(***************************************************************************)
ExpBits == 2047
ExpBias == 1023
HalfBits == 26

F64(s, e, mh, ml) == [s |-> s, e |-> e, mh |-> mh, ml |-> ml]

RECURSIVE Pow2(_)
Pow2(n) == IF n = 0 THEN 1 ELSE 2 * Pow2(n - 1)

RECURSIVE Log2(_)
\* floor(log2 k), k >= 1
Log2(k) == IF k < 2 THEN 0 ELSE 1 + Log2(k \div 2)

\* the double whose value is the whole number k (k < 2^26): k as f64
WholeDouble(k) ==
    IF k = 0 THEN F64(0, 0, 0, 0)
    ELSE LET p == Log2(k)
         IN  F64(0, ExpBias + p, (k - Pow2(p)) * Pow2(HalfBits - p), 0)

Negate(v) == [v EXCEPT !.s = 1 - v.s]

\* f64::to_bits
ToBits(v) == <<v.s, v.e, v.mh, v.ml>>

\* f64::is_nan, f64::is_finite, f64::is_sign_positive
IsNan(v) == v.e = ExpBits /\ (v.mh # 0 \/ v.ml # 0)
IsFinite(v) == v.e # ExpBits
IsSignPositive(v) == v.s = 0
IsZeroMag(v) == v.e = 0 /\ v.mh = 0 /\ v.ml = 0

\* order of magnitudes: for equal signs the bit patterns order as the values
MagLt(a, b) ==
    \/ a.e < b.e
    \/ a.e = b.e /\ a.mh < b.mh
    \/ a.e = b.e /\ a.mh = b.mh /\ a.ml < b.ml

\* IEEE comparison a == b on f64 (NaN is unequal to everything, -0.0 == 0.0)
F64Eq(a, b) ==
    /\ ~IsNan(a)
    /\ ~IsNan(b)
    /\ \/ IsZeroMag(a) /\ IsZeroMag(b)
       \/ a = b

\* IEEE comparison a < b on f64
F64Lt(a, b) ==
    /\ ~IsNan(a)
    /\ ~IsNan(b)
    /\ ~(IsZeroMag(a) /\ IsZeroMag(b))
    /\ \/ a.s = 1 /\ b.s = 0
       \/ a.s = 0 /\ b.s = 0 /\ MagLt(a, b)
       \/ a.s = 1 /\ b.s = 1 /\ MagLt(b, a)

\* f64::partial_cmp
F64PartialCmp(a, b) ==
    IF IsNan(a) \/ IsNan(b) THEN "None"
    ELSE IF F64Eq(a, b) THEN "Equal"
    ELSE IF F64Lt(a, b) THEN "Less"
    ELSE "Greater"

(***************************************************************************)
(* Text.                                                                   *)
(***************************************************************************)
DigitChars == <<"0", "1", "2", "3", "4", "5", "6", "7", "8", "9">>

\* char::is_ascii_digit
is_ascii_digit(ch) == \E i \in 1..Len(DigitChars) : DigitChars[i] = ch

Zeros(n) == [i \in 1..n |-> "0"]

RECURSIVE NatDigits(_)
\* decimal digits of a small natural number
NatDigits(n) ==
    IF n < 10 THEN <<DigitChars[n + 1]>>
    ELSE Append(NatDigits(n \div 10), DigitChars[(n % 10) + 1])

RECURSIVE StripTrailingZeros(_)
StripTrailingZeros(s) ==
    IF Len(s) > 1 /\ s[Len(s)] = "0" THEN StripTrailingZeros(SubSeq(s, 1, Len(s) - 1))
    ELSE s

(***************************************************************************)
(* Shortest round-trip decimal of a positive finite double: the digits     *)
(* d1..dn (d1 # 0, dn # 0) and the exponent k with value 0.d1..dn * 10^k,  *)
(* as the formatting machinery behind to_string and {:e} produces them.    *)
(* Whole numbers below 2^26 are decoded from the bits; the other sampled   *)
(* doubles are tabulated.                                                  *)
(***************************************************************************)
ShortestTable ==
    {
      \* 3.141592653589793 = 0x400921FB54442D18
      [v |-> F64(0, 1024, 38305493, 4467992), digits |-> <<"3", "1", "4", "1", "5", "9", "2", "6", "5", "3", "5", "8", "9", "7", "9", "3">>, exp |-> 1],
      \* 9999999999999998.0 = 0x4341C37937E07FFF
      [v |-> F64(0, 1076, 7396941, 65044479), digits |-> <<"9", "9", "9", "9", "9", "9", "9", "9", "9", "9", "9", "9", "9", "9", "9", "8">>, exp |-> 16],
      \* 1e+16 = 0x4341C37937E08000
      [v |-> F64(0, 1076, 7396941, 65044480), digits |-> <<"1">>, exp |-> 17],
      \* 0.0001 = 0x3F1A36E2EB1C432D
      [v |-> F64(0, 1009, 42842298, 52183853), digits |-> <<"1">>, exp |-> -3],
      \* 9.999999999999999e-05 = 0x3F1A36E2EB1C432C
      [v |-> F64(0, 1009, 42842298, 52183852), digits |-> <<"9", "9", "9", "9", "9", "9", "9", "9", "9", "9", "9", "9", "9", "9", "9", "9">>, exp |-> -4],
      \* 1.7976931348623157e+308 = 0x7FEFFFFFFFFFFFFF
      [v |-> F64(0, 2046, 67108863, 67108863), digits |-> <<"1", "7", "9", "7", "6", "9", "3", "1", "3", "4", "8", "6", "2", "3", "1", "5", "7">>, exp |-> 309],
      \* 2.2250738585072014e-308 = 0x0010000000000000
      [v |-> F64(0, 1, 0, 0), digits |-> <<"2", "2", "2", "5", "0", "7", "3", "8", "5", "8", "5", "0", "7", "2", "0", "1", "4">>, exp |-> -307],
      \* 2.225073858507201e-308 = 0x000FFFFFFFFFFFFF
      [v |-> F64(0, 0, 67108863, 67108863), digits |-> <<"2", "2", "2", "5", "0", "7", "3", "8", "5", "8", "5", "0", "7", "2", "0", "1">>, exp |-> -307],
      \* 5e-324 = 0x0000000000000001
      [v |-> F64(0, 0, 0, 1), digits |-> <<"5">>, exp |-> -323],
      \* 1.75 = 0x3FFC000000000000
      [v |-> F64(0, 1023, 50331648, 0), digits |-> <<"1", "7", "5">>, exp |-> 1],
      \* 6.28 = 0x40191EB851EB851F
      [v |-> F64(0, 1025, 38252052, 32212255), digits |-> <<"6", "2", "8">>, exp |-> 1],
      \* 2.72 = 0x4005C28F5C28F5C3
      [v |-> F64(0, 1024, 24159191, 2684355), digits |-> <<"2", "7", "2">>, exp |-> 1],
      \* 64.5 = 0x4050200000000000
      [v |-> F64(0, 1029, 524288, 0), digits |-> <<"6", "4", "5">>, exp |-> 2],
      \* 0.1 = 0x3FB999999999999A
      [v |-> F64(0, 1019, 40265318, 26843546), digits |-> <<"1">>, exp |-> 0],
      \* 0.2 = 0x3FC999999999999A
      [v |-> F64(0, 1020, 40265318, 26843546), digits |-> <<"2">>, exp |-> 0],
      \* 0.3 = 0x3FD3333333333333
      [v |-> F64(0, 1021, 13421772, 53687091), digits |-> <<"3">>, exp |-> 0],
      \* 1000000000000000.0 = 0x430C6BF526340000
      [v |-> F64(0, 1072, 52100425, 36962304), digits |-> <<"1">>, exp |-> 16],
      \* 1e+17 = 0x4376345785D8A000
      [v |-> F64(0, 1079, 26023393, 30973952), digits |-> <<"1">>, exp |-> 18],
      \* 1e-05 = 0x3EE4F8B588E368F1
      [v |-> F64(0, 1006, 20852066, 14903537), digits |-> <<"1">>, exp |-> -4],
      \* 0.001 = 0x3F50624DD2F1A9FC
      [v |-> F64(0, 1013, 1610612, 49392124), digits |-> <<"1">>, exp |-> -2],
      \* 1.5e+16 = 0x434AA535D3D0C000
      [v |-> F64(0, 1076, 44649844, 64012288), digits |-> <<"1", "5">>, exp |-> 17],
      \* 2.5e-07 = 0x3E90C6F7A0B5ED8D
      [v |-> F64(0, 1001, 3259880, 11922829), digits |-> <<"2", "5">>, exp |-> -6],
      \* 1e+21 = 0x444B1AE4D6E2EF50
      [v |-> F64(0, 1092, 46577973, 48426832), digits |-> <<"1">>, exp |-> 22],
      \* 0.5 = 0x3FE0000000000000
      [v |-> F64(0, 1022, 0, 0), digits |-> <<"5">>, exp |-> 0]
    }

Abs(v) == [v EXCEPT !.s = 0]

IsWhole(v) ==
    /\ v.ml = 0
    /\ v.e >= ExpBias
    /\ v.e <= ExpBias + HalfBits
    /\ v.mh % Pow2(HalfBits - (v.e - ExpBias)) = 0

WholeValue(v) == Pow2(v.e - ExpBias) + v.mh \div Pow2(HalfBits - (v.e - ExpBias))

ShortestDecimal(v) ==
    IF IsWhole(Abs(v))
    THEN LET ds == NatDigits(WholeValue(Abs(v)))
         IN  [digits |-> StripTrailingZeros(ds), exp |-> Len(ds)]
    ELSE LET r == CHOOSE row \in ShortestTable : row.v = Abs(v)
         IN  [digits |-> r.digits, exp |-> r.exp]

\* plain decimal layout of the shortest digits, no minimum fraction digits
DecStr(d) ==
    LET n == Len(d.digits)
    IN  IF d.exp <= 0 THEN <<"0", ".">> \o Zeros(0 - d.exp) \o d.digits
        ELSE IF d.exp < n
             THEN SubSeq(d.digits, 1, d.exp) \o <<".">> \o SubSeq(d.digits, d.exp + 1, n)
             ELSE d.digits \o Zeros(d.exp - n)

\* exponential layout of the shortest digits: d1[.d2..dn]e<k-1>
ExpStr(d) ==
    LET n == Len(d.digits)
    IN  <<d.digits[1]>>
        \o (IF n > 1 THEN <<".">> \o SubSeq(d.digits, 2, n) ELSE <<>>)
        \o <<"e">>
        \o (IF d.exp - 1 < 0 THEN <<"-">> \o NatDigits(1 - d.exp) ELSE NatDigits(d.exp - 1))

SignText(v) == IF v.s = 1 THEN <<"-">> ELSE <<>>

\* value.to_string(), the Display form of an f64
F64ToString(v) ==
    IF IsNan(v) THEN <<"N", "a", "N">>
    ELSE SignText(v) \o
         (IF ~IsFinite(v) THEN <<"i", "n", "f">>
          ELSE IF IsZeroMag(v) THEN <<"0">>
          ELSE DecStr(ShortestDecimal(v)))

\* format!("{:e}", value), the LowerExp form of an f64
F64ToExpString(v) ==
    IF IsNan(v) THEN <<"N", "a", "N">>
    ELSE SignText(v) \o
         (IF ~IsFinite(v) THEN <<"i", "n", "f">>
          ELSE IF IsZeroMag(v) THEN <<"0", "e", "0">>
          ELSE ExpStr(ShortestDecimal(v)))

(***************************************************************************)
(* PositiveFiniteF64 (src/src/ast/utils.rs).                               *)
(***************************************************************************)
Ok(v) == [kind |-> "Ok", value |-> v]
Err(e) == [kind |-> "Err", error |-> e]
NoResult == [kind |-> "None"]

\* faulty variant: the sign is tested before finiteness
try_from_sign_first(v) ==
    IF ~IsSignPositive(v) THEN Err("Negative")
    ELSE IF IsFinite(v) THEN Ok([value |-> v])
    ELSE Err("NonFinite")

\* faulty variant: negativity is tested by value (v < 0.0), not by the sign bit
try_from_by_value(v) ==
    IF IsFinite(v)
    THEN IF ~F64Lt(v, F64(0, 0, 0, 0))
         THEN Ok([value |-> v])
         ELSE Err("Negative")
    ELSE Err("NonFinite")

try_from(value) ==
    IF IsFinite(value)
    THEN IF IsSignPositive(value)
         THEN Ok([value |-> value])
         ELSE Err("Negative")
    ELSE Err("NonFinite")

\* faulty variant: the value is read back through single precision
value_single(self) == [self.value EXCEPT !.ml = 0]

\* PositiveFiniteF64::value
value(self) == self.value

\* #[derive(PartialEq)]: equality of the wrapped f64
eq(self, other) == F64Eq(self.value, other.value)

\* #[derive(PartialOrd)]: partial_cmp of the wrapped f64
partial_cmp(self, other) == F64PartialCmp(self.value, other.value)

\* Hash: the raw bits are what is fed to the hasher
hash(self) == ToBits(self.value)

\* Ord::cmp: partial_cmp(..).unwrap()
cmp(self, other) ==
    LET o == partial_cmp(self, other)
    IN  IF o = "None" THEN "panic" ELSE o

(***************************************************************************)
(* Inputs of try_from: the whole numbers up to MaxWhole, the tabulated     *)
(* doubles, the negations of both, the infinities and four NaNs.           *)
(***************************************************************************)
PosZero == F64(0, 0, 0, 0)
NegZero == F64(1, 0, 0, 0)
PosInfinity == F64(0, ExpBits, 0, 0)
NegInfinity == F64(1, ExpBits, 0, 0)
\* f64::NAN (quiet, positive) and a NaN with only the lowest fraction bit set
QuietNan == F64(0, ExpBits, 33554432, 0)
LowNan == F64(0, ExpBits, 0, 1)

PosFinite == {WholeDouble(k) : k \in 0..MaxWhole} \cup {r.v : r \in ShortestTable}

RawDoubles ==
    PosFinite \cup {Negate(v) : v \in PosFinite}
    \cup {PosInfinity, NegInfinity, QuietNan, Negate(QuietNan), LowNan, Negate(LowNan)}

(***************************************************************************)
(* u64: four 16-bit limbs, least significant first.  The caller's integers *)
(* are limb sequences of any length; Expr::Int holds a u64.                *)
(***************************************************************************)
LimbBase == 65536
U64Limbs == 4

\* narrowing of a caller's integer to the u64 of Expr::Int: the low 64 bits
AsU64(n) == [i \in 1..U64Limbs |-> IF i <= Len(n) THEN n[i] ELSE 0]

RECURSIVE RemFrom(_, _)
\* (limbs i.. of x, read as a number) mod 10
RemFrom(x, i) == IF i > Len(x) THEN 0 ELSE (RemFrom(x, i + 1) * LimbBase + x[i]) % 10

Div10(x) == [i \in 1..Len(x) |-> (RemFrom(x, i + 1) * LimbBase + x[i]) \div 10]

IsZeroLimbs(x) == \A i \in 1..Len(x) : x[i] = 0

RECURSIVE u64_to_string(_)
\* x.to_string() of a u64: base 10, no sign, no leading zeros
u64_to_string(x) ==
    IF IsZeroLimbs(Div10(x)) THEN <<DigitChars[RemFrom(x, 1) + 1]>>
    ELSE Append(u64_to_string(Div10(x)), DigitChars[RemFrom(x, 1) + 1])

(***************************************************************************)
(* Expr (src/src/ast.rs).                                                  *)
(***************************************************************************)
ExprInt(x) == [tag |-> "Int", int |-> x]
Float(x) == [tag |-> "Float", float |-> x]
Str(x) == [tag |-> "Str", str |-> x]
Bool(x) == [tag |-> "Bool", bool |-> x]
EnumMember(enum_path, label) == [tag |-> "EnumMember", enum_path |-> enum_path, label |-> label]
List(items) == [tag |-> "List", items |-> items]
Name(name) == [tag |-> "Name", name |-> name]
Attribute(v, attr_name) == [tag |-> "Attribute", value |-> v, attr_name |-> attr_name]
MethodCall(v, method_name, args) ==
    [tag |-> "MethodCall", value |-> v, method_name |-> method_name, args |-> args]
UnaryOp(op, v) == [tag |-> "UnaryOp", op |-> op, v |-> v]
BinaryOp(l, op, r) == [tag |-> "BinaryOp", l |-> l, op |-> op, r |-> r]
CondOp(cond, if_true, if_false) ==
    [tag |-> "CondOp", cond |-> cond, if_true |-> if_true, if_false |-> if_false]
Subscript(v, idx) == [tag |-> "Subscript", value |-> v, idx |-> idx]

UnaryOps == {"Neg", "Not", "Inv"}

\* faulty variant: the two shifts are missing
BinaryOpsWithoutShifts ==
    {"Add", "Sub", "Mul", "Div", "Rem",
     "Eq", "Ne", "Lt", "Le", "Gt", "Ge",
     "And", "Or",
     "BitOr", "BitXor", "BitAnd"}

BinaryOps ==
    {"Add", "Sub", "Mul", "Div", "Rem",
     "Eq", "Ne", "Lt", "Le", "Gt", "Ge",
     "And", "Or",
     "BitOr", "BitXor", "BitAnd",
     "Shl", "Shr"}

(***************************************************************************)
(* translate (src/src/translator.rs).  A call returns a string or panics.  *)
(***************************************************************************)
Done(text) == [kind |-> "Ok", text |-> text]
Panic == [kind |-> "Panic"]

AllDone(rs) == \A i \in 1..Len(rs) : rs[i].kind = "Ok"

RECURSIVE Join(_, _)
\* [String].join(sep)
Join(parts, sep) ==
    IF Len(parts) = 0 THEN <<>>
    ELSE IF Len(parts) = 1 THEN parts[1]
    ELSE parts[1] \o sep \o Join(Tail(parts), sep)

\* str::contains(char)
Contains(s, ch) == \E i \in 1..Len(s) : s[i] = ch

translate_unary_op(op) ==
    CASE op = "Neg" -> <<"-">>
      [] op = "Not" -> <<"n", "o", "t", " ">>
      [] op = "Inv" -> <<"~">>

translate_binary_op(op) ==
    CASE op = "Add" -> <<"+">>
      [] op = "Sub" -> <<"-">>
      [] op = "Mul" -> <<"*">>
      [] op = "Div" -> <<"/">>
      [] op = "Rem" -> <<"%">>
      [] op = "Eq" -> <<"=", "=">>
      [] op = "Ne" -> <<"!", "=">>
      [] op = "Lt" -> <<"<">>
      [] op = "Le" -> <<"<", "=">>
      [] op = "Gt" -> <<">">>
      [] op = "Ge" -> <<">", "=">>
      [] op = "And" -> <<"a", "n", "d">>
      [] op = "Or" -> <<"o", "r">>
      [] op = "BitOr" -> <<"|">>
      [] op = "BitXor" -> <<"^">>
      [] op = "BitAnd" -> <<"&">>
      [] op = "Shl" -> <<"<", "<">>
      [] op = "Shr" -> <<">", ">">>

\* the f64 literals 1e-4 and 1e16 of the range (1e-4..1e16)
RangeStart == F64(0, 1009, 42842298, 52183853)
RangeEnd == F64(0, 1076, 7396941, 65044480)

\* faulty variant: the range is closed at 1e16 (1e-4..=1e16)
should_format_inclusive_end(v) ==
    IF F64Eq(v, F64(0, 0, 0, 0)) THEN FALSE
    ELSE ~((F64Lt(RangeStart, v) \/ F64Eq(RangeStart, v))
           /\ (F64Lt(v, RangeEnd) \/ F64Eq(v, RangeEnd)))

should_format_float_with_exponent(v) ==
    IF F64Eq(v, PosZero) THEN FALSE
    ELSE ~((F64Lt(RangeStart, v) \/ F64Eq(RangeStart, v)) /\ F64Lt(v, RangeEnd))

\* let formatted = if should_format_float_with_exponent(value) {..} else {..}
format_float(v) ==
    IF should_format_float_with_exponent(v) THEN F64ToExpString(v) ELSE F64ToString(v)

\* faulty variant: the digit-only text is returned as it is
translate_float_bare(x) == Done(format_float(value(x)))

\* the Expr::Float arm
translate_float(x) ==
    LET formatted == format_float(value(x))
    IN  IF \A i \in 1..Len(formatted) : is_ascii_digit(formatted[i])
        THEN Done(formatted \o <<".", "0">>)
        ELSE Done(formatted)

\* the Expr::Int arm
translate_int(x) == Done(u64_to_string(x))

RECURSIVE Escaped(_, _)
\* s with a backslash put before every ch
Escaped(s, ch) ==
    IF Len(s) = 0 THEN <<>>
    ELSE (IF s[1] = ch THEN <<"\\", s[1]>> ELSE <<s[1]>>) \o Escaped(Tail(s), ch)

\* faulty variant: a single quote is escaped instead of rejected
translate_str_quote_escaped(x) == Done(<<"'">> \o Escaped(x, "'") \o <<"'">>)

\* faulty variant: backslashes are escaped
translate_str_backslash_escaped(x) ==
    IF Contains(x, "'") THEN Panic
    ELSE Done(<<"'">> \o Escaped(x, "\\") \o <<"'">>)

\* the Expr::Str arm: assert!(!x.contains('\'')), then format!("'{}'", x)
translate_str(x) ==
    IF Contains(x, "'") THEN Panic
    ELSE Done(<<"'">> \o x \o <<"'">>)

\* the Expr::Bool arm
translate_bool(x) ==
    Done(IF x THEN <<"t", "r", "u", "e">> ELSE <<"f", "a", "l", "s", "e">>)

\* the Expr::EnumMember arm
translate_enum_member(enum_path, label) ==
    Done(Join(Append(enum_path, label), <<":", ":">>))

\* faulty variant: no parentheses around an operand that brings its own
format_unary_minimal(op, v) ==
    IF v.kind = "Ok"
    THEN IF v.text[1] = "("
         THEN Done(translate_unary_op(op) \o v.text)
         ELSE Done(<<"(">> \o translate_unary_op(op) \o v.text \o <<")">>)
    ELSE Panic

\* faulty variant: no parentheses around a unary operation
format_unary_bare(op, v) ==
    IF v.kind = "Ok" THEN Done(translate_unary_op(op) \o v.text)
    ELSE Panic

\* format!("({}{})", translate_unary_op(op), translate(v)), v already translated
format_unary(op, v) ==
    IF v.kind = "Ok" THEN Done(<<"(">> \o translate_unary_op(op) \o v.text \o <<")">>)
    ELSE Panic

\* faulty variant: the operands are written right to left
format_binary_swapped(l, op, r) ==
    IF l.kind = "Ok" /\ r.kind = "Ok"
    THEN Done(<<"(">> \o r.text \o <<" ">> \o translate_binary_op(op) \o <<" ">> \o l.text \o <<")">>)
    ELSE Panic

\* format!("({} {} {})", translate(l), translate_binary_op(op), translate(r))
format_binary(l, op, r) ==
    IF l.kind = "Ok" /\ r.kind = "Ok"
    THEN Done(<<"(">> \o l.text \o <<" ">> \o translate_binary_op(op) \o <<" ">> \o r.text \o <<")">>)
    ELSE Panic

\* format!("({} ? {} : {})", translate(cond), translate(if_true), translate(if_false))
format_cond(c, t, f) ==
    IF c.kind = "Ok" /\ t.kind = "Ok" /\ f.kind = "Ok"
    THEN Done(<<"(">> \o c.text \o <<" ", "?", " ">> \o t.text \o <<" ", ":", " ">> \o f.text \o <<")">>)
    ELSE Panic

\* faulty variant: the items are written last to first
format_list_reversed(items) ==
    IF AllDone(items)
    THEN Done(<<"[">>
              \o Join([i \in 1..Len(items) |-> items[Len(items) + 1 - i].text], <<",", " ">>)
              \o <<"]">>)
    ELSE Panic

\* format!("[{}]", items.iter().map(translate).collect::<Vec<_>>().join(", "))
format_list(items) ==
    IF AllDone(items)
    THEN Done(<<"[">> \o Join([i \in 1..Len(items) |-> items[i].text], <<",", " ">>) \o <<"]">>)
    ELSE Panic

\* faulty variant: a base that is not a plain literal or name is parenthesized
format_attribute_guarded(v, attr_name) ==
    IF v.kind = "Ok"
    THEN IF \E i \in 1..Len(v.text) : v.text[i] \in {"(", ")", "[", "]", " ", "."}
         THEN Done(<<"(">> \o v.text \o <<")", ".">> \o attr_name)
         ELSE Done(v.text \o <<".">> \o attr_name)
    ELSE Panic

\* format!("{}.{}", translate(value), attr_name)
format_attribute(v, attr_name) ==
    IF v.kind = "Ok" THEN Done(v.text \o <<".">> \o attr_name)
    ELSE Panic

\* format!("{}.{}({})", translate(value), method_name, args...join(", "))
format_method_call(v, method_name, args) ==
    IF v.kind = "Ok" /\ AllDone(args)
    THEN Done(v.text \o <<".">> \o method_name \o <<"(">>
              \o Join([i \in 1..Len(args) |-> args[i].text], <<",", " ">>) \o <<")">>)
    ELSE Panic

\* format!("{}[{}]", translate(value), translate(idx))
format_subscript(v, idx) ==
    IF v.kind = "Ok" /\ idx.kind = "Ok" THEN Done(v.text \o <<"[">> \o idx.text \o <<"]">>)
    ELSE Panic

RECURSIVE translate(_)
translate(expr) ==
    CASE expr.tag = "Int" -> translate_int(expr.int)
      [] expr.tag = "Float" -> translate_float(expr.float)
      [] expr.tag = "Str" -> translate_str(expr.str)
      [] expr.tag = "Bool" -> translate_bool(expr.bool)
      [] expr.tag = "EnumMember" -> translate_enum_member(expr.enum_path, expr.label)
      [] expr.tag = "List" ->
            format_list([i \in 1..Len(expr.items) |-> translate(expr.items[i])])
      [] expr.tag = "Name" -> Done(expr.name)
      [] expr.tag = "Attribute" -> format_attribute(translate(expr.value), expr.attr_name)
      [] expr.tag = "MethodCall" ->
            format_method_call(translate(expr.value), expr.method_name,
                               [i \in 1..Len(expr.args) |-> translate(expr.args[i])])
      [] expr.tag = "UnaryOp" -> format_unary(expr.op, translate(expr.v))
      [] expr.tag = "BinaryOp" -> format_binary(translate(expr.l), expr.op, translate(expr.r))
      [] expr.tag = "CondOp" ->
            format_cond(translate(expr.cond), translate(expr.if_true), translate(expr.if_false))
      [] expr.tag = "Subscript" -> format_subscript(translate(expr.value), translate(expr.idx))

\* the subtrees a call of translate hands to translate, in the order in which
\* the arguments of its format! are evaluated
Subtrees(expr) ==
    CASE expr.tag \in {"Int", "Float", "Str", "Bool", "EnumMember", "Name"} -> <<>>
      [] expr.tag = "List" -> expr.items
      [] expr.tag = "Attribute" -> <<expr.value>>
      [] expr.tag = "MethodCall" -> <<expr.value>> \o expr.args
      [] expr.tag = "UnaryOp" -> <<expr.v>>
      [] expr.tag = "BinaryOp" -> <<expr.l, expr.r>>
      [] expr.tag = "CondOp" -> <<expr.cond, expr.if_true, expr.if_false>>
      [] expr.tag = "Subscript" -> <<expr.value, expr.idx>>

RECURSIVE translate_calls(_, _)
RECURSIVE translate_each(_, _, _)

\* faulty variant: the operands are translated last to first, all of them
translate_each_backwards(exprs, path, i) ==
    IF i > Len(exprs) THEN <<>>
    ELSE translate_each(exprs, path, i + 1) \o translate_calls(exprs[i], Append(path, i))

\* the calls made for the operands i, i + 1, ... of the node at path: one
\* operand after the other, and none after an operand whose call panicked
translate_each(exprs, path, i) ==
    IF i > Len(exprs) THEN <<>>
    ELSE translate_calls(exprs[i], Append(path, i))
         \o (IF translate(exprs[i]).kind = "Ok"
             THEN translate_each(exprs, path, i + 1)
             ELSE <<>>)

\* the calls of translate that translate(expr) gives rise to, itself first,
\* each named by the path of child indices from the root to its node; the
\* number of translate frames below a call is the length of its path
translate_calls(expr, path) == <<path>> \o translate_each(Subtrees(expr), path, 1)

(***************************************************************************)
(* The caller of PositiveFiniteF64: constructs values, keeps one, and      *)
(* compares the kept value with the newest one (==, cmp, hash).            *)
(***************************************************************************)
Init ==
    /\ raw = NoResult
    /\ res = NoResult
    /\ held = NoResult
    /\ ord = NoResult
    /\ tree = NoResult
    /\ arg = NoResult
    /\ out = NoResult
    /\ kept = NoResult
    /\ calls = NoResult

CallTryFrom ==
    /\ \E v \in RawDoubles :
          /\ raw' = v
          /\ res' = try_from(v)
    /\ ord' = NoResult
    /\ UNCHANGED held
    /\ UNCHANGED treeVars

KeepValue ==
    /\ res.kind = "Ok"
    /\ held' = [kind |-> "Some", value |-> res.value]
    /\ ord' = NoResult
    /\ UNCHANGED <<raw, res>>
    /\ UNCHANGED treeVars

Compare ==
    /\ held.kind = "Some"
    /\ res.kind = "Ok"
    /\ ord' = [kind |-> "Done",
               eq |-> eq(held.value, res.value),
               cmp |-> cmp(held.value, res.value),
               ha |-> hash(held.value),
               hb |-> hash(res.value)]
    /\ UNCHANGED <<raw, res, held>>
    /\ UNCHANGED treeVars

NextFloat ==
    \/ CallTryFrom
    \/ KeepValue
    \/ Compare

SpecFloat == Init /\ [][NextFloat]_vars

(***************************************************************************)
(* The caller of translate: builds a tree bottom-up, one node per step,    *)
(* and renders it.  Leaves take their payload from the input sets below;   *)
(* a node constructor puts the tree built so far in one child position     *)
(* and Sibling in the others.                                              *)
(***************************************************************************)
\* the caller's integers: 0, 3, 13, 300, 63488, 2^16, 2^32, u64::MAX, 2^64, 2^64 + 13
IntArgs ==
    {<<0>>, <<3>>, <<13>>, <<300>>, <<63488>>, <<0, 1>>, <<0, 0, 1>>,
     <<65535, 65535, 65535, 65535>>, <<0, 0, 0, 0, 1>>, <<13, 0, 0, 0, 1>>}

StrArgs ==
    {<<>>, <<"a", "b">>, <<"w", "\\", "x">>, <<"y", "\"", "z">>, <<"5", "6">>,
     <<"a", "'", "b">>, <<"'">>, <<"'", "x">>, <<"x", "'">>}

IdX == <<"x">>
IdToS == <<"t", "o", "_", "s">>

EnumArgs ==
    {[enum_path |-> <<>>, label |-> <<"h">>],
     [enum_path |-> <<<<"p">>>>, label |-> <<"h">>],
     [enum_path |-> <<<<"t">>, <<"p">>>>, label |-> <<"h">>]}

NameArgs == {IdX, <<"_", "i", "o">>}

Sibling == ExprInt(AsU64(<<3>>))

\* the leaves the caller goes on to nest
Operands ==
    {ExprInt(AsU64(<<3>>)), Float([value |-> F64(0, 1023, 50331648, 0)]),
     Str(<<"a", "b">>), Str(<<"a", "'", "b">>), Bool(TRUE), Name(IdX)}

\* inside a nested tree the caller uses these binary operators only
NestedBinaryOps == {"Add", "And"}

MaxOf(S) == IF S = {} THEN 0 ELSE CHOOSE m \in S : \A x \in S : x <= m

RECURSIVE Depth(_)
\* nesting depth of a tree: 0 for a literal or a name
Depth(e) ==
    CASE e.tag \in {"Int", "Float", "Str", "Bool", "EnumMember", "Name"} -> 0
      [] e.tag = "List" -> 1 + MaxOf({Depth(e.items[i]) : i \in 1..Len(e.items)})
      [] e.tag = "Attribute" -> 1 + Depth(e.value)
      [] e.tag = "MethodCall" ->
            1 + MaxOf({Depth(e.value)} \cup {Depth(e.args[i]) : i \in 1..Len(e.args)})
      [] e.tag = "UnaryOp" -> 1 + Depth(e.v)
      [] e.tag = "BinaryOp" -> 1 + MaxOf({Depth(e.l), Depth(e.r)})
      [] e.tag = "CondOp" -> 1 + MaxOf({Depth(e.cond), Depth(e.if_true), Depth(e.if_false)})
      [] e.tag = "Subscript" -> 1 + MaxOf({Depth(e.value), Depth(e.idx)})

Siblings(n) == [i \in 1..n |-> Sibling]

\* the caller holds no tree: the next node is a leaf
NoTree == tree = NoResult

\* a new tree replaces the old one: nothing has been rendered from it yet
Built(t) ==
    /\ tree' = t
    /\ out' = NoResult
    /\ calls' = NoResult
    /\ UNCHANGED kept
    /\ UNCHANGED floatVars

\* the tree built so far may become a child of a new node
CanNest ==
    /\ tree # NoResult
    /\ Depth(tree) > 0 \/ tree \in Operands
    /\ Depth(tree) < (IF kept = NoResult THEN MaxDepth ELSE MaxKeptDepth)

MkInt ==
    /\ NoTree
    /\ \E n \in IntArgs :
          /\ Built(ExprInt(AsU64(n)))
          /\ arg' = [kind |-> "Some", n |-> n]

\* Expr::Float(PositiveFiniteF64::try_from(v).unwrap())
MkFloat ==
    /\ NoTree
    /\ \E v \in RawDoubles :
          /\ try_from(v).kind = "Ok"
          /\ Built(Float(try_from(v).value))
    /\ arg' = NoResult

MkStr ==
    /\ NoTree
    /\ \E x \in StrArgs : Built(Str(x))
    /\ arg' = NoResult

MkBool ==
    /\ NoTree
    /\ \E x \in BOOLEAN : Built(Bool(x))
    /\ arg' = NoResult

MkEnumMember ==
    /\ NoTree
    /\ \E m \in EnumArgs : Built(EnumMember(m.enum_path, m.label))
    /\ arg' = NoResult

MkName ==
    /\ NoTree
    /\ \E name \in NameArgs : Built(Name(name))
    /\ arg' = NoResult

MkEmptyList ==
    /\ NoTree
    /\ Built(List(<<>>))
    /\ arg' = NoResult

\* the tree as the only, the first or the last item of a list
MkList ==
    /\ CanNest
    /\ \E before \in 0..1, after \in 0..1 :
          /\ before + after <= 1
          /\ Built(List(Siblings(before) \o <<tree>> \o Siblings(after)))
    /\ UNCHANGED arg

MkAttribute ==
    /\ CanNest
    /\ Built(Attribute(tree, IdToS))
    /\ UNCHANGED arg

\* the tree as the receiver of a call with no or one argument
MkMethodCall ==
    /\ CanNest
    /\ \E nargs \in 0..1 : Built(MethodCall(tree, IdToS, Siblings(nargs)))
    /\ UNCHANGED arg

\* the tree as the last argument of a call with one or two arguments
MkMethodCallArg ==
    /\ CanNest
    /\ \E before \in 0..1 :
          Built(MethodCall(Name(IdX), IdToS, Siblings(before) \o <<tree>>))
    /\ UNCHANGED arg

MkUnaryOp ==
    /\ CanNest
    /\ \E op \in UnaryOps : Built(UnaryOp(op, tree))
    /\ UNCHANGED arg

MkBinaryOp ==
    /\ CanNest
    /\ \E op \in (IF Depth(tree) = 0 THEN BinaryOps ELSE NestedBinaryOps) :
          \/ Built(BinaryOp(tree, op, Sibling))
          \/ Built(BinaryOp(Sibling, op, tree))
    /\ UNCHANGED arg

MkCondOp ==
    /\ CanNest
    /\ \/ Built(CondOp(tree, Sibling, Sibling))
       \/ Built(CondOp(Bool(TRUE), tree, Sibling))
       \/ Built(CondOp(Bool(TRUE), Sibling, tree))
    /\ UNCHANGED arg

MkSubscript ==
    /\ CanNest
    /\ \/ Built(Subscript(tree, Sibling))
       \/ Built(Subscript(Name(IdX), tree))
    /\ UNCHANGED arg

\* faulty variant: the output buffer outlives the call and is appended to
RenderAppending ==
    /\ tree # NoResult
    /\ out' = IF out # NoResult /\ out.kind = "Ok" /\ translate(tree).kind = "Ok"
              THEN Done(out.text \o translate(tree).text)
              ELSE translate(tree)
    /\ calls' = translate_calls(tree, <<>>)
    /\ UNCHANGED <<tree, arg, kept>>
    /\ UNCHANGED floatVars

\* translate(&tree): the tree is borrowed, the outcome is all that changes
Render ==
    /\ tree # NoResult
    /\ out' = translate(tree)
    /\ calls' = translate_calls(tree, <<>>)
    /\ UNCHANGED <<tree, arg, kept>>
    /\ UNCHANGED floatVars

\* the caller drops the tree and whatever was rendered from it
Drop ==
    /\ tree # NoResult
    /\ tree' = NoResult
    /\ arg' = NoResult
    /\ out' = NoResult
    /\ calls' = NoResult
    /\ UNCHANGED kept
    /\ UNCHANGED floatVars

\* the caller keeps the string of a rendered leaf to compare later renderings with
KeepOutput ==
    /\ out # NoResult
    /\ out.kind = "Ok"
    /\ tree \in {Name(IdX), Float([value |-> F64(0, 1023, 50331648, 0)])}
    /\ kept' = [kind |-> "Some", tree |-> tree, text |-> out.text]
    /\ UNCHANGED <<tree, arg, out, calls>>
    /\ UNCHANGED floatVars

Next ==
    \/ MkInt
    \/ MkFloat
    \/ MkStr
    \/ MkBool
    \/ MkEnumMember
    \/ MkName
    \/ MkEmptyList
    \/ MkList
    \/ MkAttribute
    \/ MkMethodCall
    \/ MkMethodCallArg
    \/ MkUnaryOp
    \/ MkBinaryOp
    \/ MkCondOp
    \/ MkSubscript
    \/ Render
    \/ KeepOutput
    \/ Drop

Spec == Init /\ [][Next]_vars

(***************************************************************************)
(* Properties.                                                             *)
(***************************************************************************)
OnlyDigits(s) == \A i \in 1..Len(s) : s[i] \in {"0", "1", "2", "3", "4", "5", "6", "7", "8", "9"}

Rendered == tree # NoResult /\ out # NoResult

NonFiniteDoubles ==
    {PosInfinity, NegInfinity, QuietNan, Negate(QuietNan), LowNan, Negate(LowNan)}

\* C1: try_from classifies every raw double: NaN and the infinities of either
\* sign are NonFinite, every other input with the sign bit set (-0.0 and the
\* negative subnormals among them) is Negative, and everything else is Ok.
C1_Classification ==
    res # NoResult =>
        /\ raw \in NonFiniteDoubles => res = Err("NonFinite")
        /\ raw \in {Negate(v) : v \in PosFinite} => res = Err("Negative")
        /\ raw \in PosFinite => res.kind = "Ok"
        /\ res.kind = "Ok" \/ res = Err("NonFinite") \/ res = Err("Negative")

\* a negative NaN has been classified, and as NonFinite
C1_Witness == raw = Negate(QuietNan) /\ res = Err("NonFinite")

\* C2: for every finite double with a positive sign bit try_from succeeds and
\* value() of the result is the input, bit for bit.
C2_RoundTrip ==
    (res # NoResult /\ raw \in PosFinite) =>
        /\ res.kind = "Ok"
        /\ ToBits(value(res.value)) = ToBits(raw)

\* the largest subnormal has been wrapped
C2_Witness == raw = F64(0, 0, 67108863, 67108863) /\ res.kind = "Ok"

\* C3: translate panics exactly when the tree holds, at any depth and in any
\* child position, a Str whose text contains a single quote; a panic yields no
\* string at all and every other tree yields one.
RECURSIVE HasQuotedStr(_)
HasQuotedStr(e) ==
    CASE e.tag = "Str" -> \E i \in 1..Len(e.str) : e.str[i] = "'"
      [] e.tag \in {"Int", "Float", "Bool", "EnumMember", "Name"} -> FALSE
      [] e.tag = "List" -> \E i \in 1..Len(e.items) : HasQuotedStr(e.items[i])
      [] e.tag = "Attribute" -> HasQuotedStr(e.value)
      [] e.tag = "MethodCall" ->
            HasQuotedStr(e.value) \/ \E i \in 1..Len(e.args) : HasQuotedStr(e.args[i])
      [] e.tag = "UnaryOp" -> HasQuotedStr(e.v)
      [] e.tag = "BinaryOp" -> HasQuotedStr(e.l) \/ HasQuotedStr(e.r)
      [] e.tag = "CondOp" ->
            HasQuotedStr(e.cond) \/ HasQuotedStr(e.if_true) \/ HasQuotedStr(e.if_false)
      [] e.tag = "Subscript" -> HasQuotedStr(e.value) \/ HasQuotedStr(e.idx)

C3_PanicIffQuote ==
    Rendered =>
        /\ HasQuotedStr(tree) => out = Panic
        /\ ~HasQuotedStr(tree) => out.kind = "Ok" /\ DOMAIN out = {"kind", "text"}

\* the quote sits in a list that is the second argument of a method call
C3_Witness ==
    /\ Rendered
    /\ out = Panic
    /\ tree.tag = "MethodCall"
    /\ Len(tree.args) = 2
    /\ tree.args[2].tag = "List"

\* C4: a Str without a single quote renders as its text between two single
\* quotes, nothing escaped, dropped or altered.
C4_StrVerbatim ==
    (Rendered /\ tree.tag = "Str" /\ ~(\E i \in 1..Len(tree.str) : tree.str[i] = "'")) =>
        /\ out.kind = "Ok"
        /\ Len(out.text) = Len(tree.str) + 2
        /\ out.text[1] = "'"
        /\ out.text[Len(out.text)] = "'"
        /\ SubSeq(out.text, 2, Len(out.text) - 1) = tree.str

\* a string with a backslash has been rendered
C4_Witness == Rendered /\ tree = Str(<<"w", "\\", "x">>) /\ out.kind = "Ok"

\* C5: the rendering of a UnaryOp, BinaryOp or CondOp node begins with "(" and
\* ends with ")", whatever the operator, the depth or the operands.
C5_Parenthesized ==
    (Rendered /\ tree.tag \in {"UnaryOp", "BinaryOp", "CondOp"} /\ out.kind = "Ok") =>
        /\ out.text[1] = "("
        /\ out.text[Len(out.text)] = ")"

\* a unary operator applied to an operand that is itself parenthesized
C5_Witness ==
    /\ Rendered
    /\ out.kind = "Ok"
    /\ tree.tag = "UnaryOp"
    /\ tree.v.tag \in {"UnaryOp", "BinaryOp", "CondOp"}

\* the value lies in [1e-4, 1e16), read off its shortest decimal 0.d1..dn * 10^k
InPlainRange(v) == ShortestDecimal(v).exp >= -3 /\ ShortestDecimal(v).exp <= 16

\* C6: a Float renders in plain decimal form when its value is zero or in
\* [1e-4, 1e16) and in exponential form otherwise; 1e-4 is plain and the double
\* below it exponential, the double below 1e16 is plain and 1e16 exponential.
C6_ExponentRange ==
    (Rendered /\ tree.tag = "Float") =>
        LET v == tree.float.value
            plain == IsZeroMag(v) \/ InPlainRange(v)
        IN  /\ out.kind = "Ok"
            /\ plain <=> ~(\E i \in 1..Len(out.text) : out.text[i] = "e")
            /\ plain => \E i \in 1..Len(out.text) : out.text[i] = "."
            /\ v = F64(0, 1009, 42842298, 52183853) => out.text = <<"0", ".", "0", "0", "0", "1">>
            /\ v = F64(0, 1009, 42842298, 52183852) =>
                  out.text = <<"9", ".", "9", "9", "9", "9", "9", "9", "9", "9", "9", "9", "9",
                               "9", "9", "9", "9", "e", "-", "5">>
            /\ v = F64(0, 1076, 7396941, 65044479) =>
                  out.text = <<"9", "9", "9", "9", "9", "9", "9", "9", "9", "9", "9", "9", "9",
                               "9", "9", "8", ".", "0">>
            /\ v = F64(0, 1076, 7396941, 65044480) => out.text = <<"1", "e", "1", "6">>

\* 1e16 has been rendered, in exponential form
C6_Witness ==
    /\ Rendered
    /\ tree = Float([value |-> F64(0, 1076, 7396941, 65044480)])
    /\ out = Done(<<"1", "e", "1", "6">>)

\* C7: a Float renders as its formatted text, with ".0" appended exactly when
\* that text is digits only; so no Float renders to digits only, none renders
\* as an Int does, and the digit-only text arises in plain form only.
C7_FloatNeverInt ==
    (Rendered /\ tree.tag = "Float") =>
        LET v == tree.float.value
            formatted == format_float(v)
        IN  /\ out.kind = "Ok"
            /\ out.text = IF OnlyDigits(formatted) THEN formatted \o <<".", "0">> ELSE formatted
            /\ ~OnlyDigits(out.text)
            /\ \A n \in IntArgs : translate(ExprInt(AsU64(n))) # out
            /\ OnlyDigits(formatted) => ~should_format_float_with_exponent(v)
            /\ v = PosZero => out.text = <<"0", ".", "0">>
            /\ v = WholeDouble(13) => out.text = <<"1", "3", ".", "0">>

\* 13.0 has been rendered as "13.0", beside the Int 13 that renders "13"
C7_Witness ==
    /\ Rendered
    /\ tree = Float([value |-> WholeDouble(13)])
    /\ out = Done(<<"1", "3", ".", "0">>)
    /\ translate(ExprInt(AsU64(<<13>>))) = Done(<<"1", "3">>)

DecimalTable ==
    {
      [n |-> <<0>>, text |-> <<"0">>],
      [n |-> <<3>>, text |-> <<"3">>],
      [n |-> <<13>>, text |-> <<"1", "3">>],
      [n |-> <<300>>, text |-> <<"3", "0", "0">>],
      [n |-> <<63488>>, text |-> <<"6", "3", "4", "8", "8">>],
      [n |-> <<0, 1>>, text |-> <<"6", "5", "5", "3", "6">>],
      [n |-> <<0, 0, 1>>, text |-> <<"4", "2", "9", "4", "9", "6", "7", "2", "9", "6">>],
      [n |-> <<65535, 65535, 65535, 65535>>, text |-> <<"1", "8", "4", "4", "6", "7", "4", "4", "0", "7", "3", "7", "0", "9", "5", "5", "1", "6", "1", "5">>],
      [n |-> <<0, 0, 0, 0, 1>>, text |-> <<"1", "8", "4", "4", "6", "7", "4", "4", "0", "7", "3", "7", "0", "9", "5", "5", "1", "6", "1", "6">>],
      [n |-> <<13, 0, 0, 0, 1>>, text |-> <<"1", "8", "4", "4", "6", "7", "4", "4", "0", "7", "3", "7", "0", "9", "5", "5", "1", "6", "2", "9">>]
    }
DecimalText(n) == (CHOOSE row \in DecimalTable : row.n = n).text

\* C9: an Int renders as the base-10 digits of its non-negative integer, no
\* sign, no leading zeros, for every integer: u64::MAX and the values above it
\* too.
C9_IntDecimal ==
    (Rendered /\ tree.tag = "Int" /\ arg # NoResult) => out = Done(DecimalText(arg.n))

\* C10: on PositiveFiniteF64 values ==, hash and cmp agree and cmp is total:
\* equal values have the same bits and the same hash, cmp never panics, and no
\* constructed value is a NaN or negative zero.
C10_EqHashOrd ==
    /\ res # NoResult /\ res.kind = "Ok" =>
          ~IsNan(res.value.value) /\ res.value.value # NegZero
    /\ ord # NoResult =>
          /\ ord.eq => ToBits(held.value.value) = ToBits(res.value.value) /\ ord.ha = ord.hb
          /\ ord.cmp # "panic"
          /\ ord.eq <=> ord.cmp = "Equal"

\* zero has been compared with zero
C10_Witness == ord # NoResult /\ ord.eq /\ IsZeroMag(res.value.value)

RECURSIVE Positions(_, _)
\* the paths of all the nodes of the tree e that sits at path
Positions(e, path) ==
    {path} \cup
    CASE e.tag \in {"Int", "Float", "Str", "Bool", "EnumMember", "Name"} -> {}
      [] e.tag = "List" ->
            UNION {Positions(e.items[i], Append(path, i)) : i \in 1..Len(e.items)}
      [] e.tag = "Attribute" -> Positions(e.value, Append(path, 1))
      [] e.tag = "MethodCall" ->
            Positions(e.value, Append(path, 1))
            \cup UNION {Positions(e.args[i], Append(path, i + 1)) : i \in 1..Len(e.args)}
      [] e.tag = "UnaryOp" -> Positions(e.v, Append(path, 1))
      [] e.tag = "BinaryOp" ->
            Positions(e.l, Append(path, 1)) \cup Positions(e.r, Append(path, 2))
      [] e.tag = "CondOp" ->
            Positions(e.cond, Append(path, 1)) \cup Positions(e.if_true, Append(path, 2))
            \cup Positions(e.if_false, Append(path, 3))
      [] e.tag = "Subscript" ->
            Positions(e.value, Append(path, 1)) \cup Positions(e.idx, Append(path, 2))

\* depth-first, left-to-right order of two nodes: p is an ancestor of q, or p
\* lies in a subtree to the left of the one q lies in
Before(p, q) ==
    \E k \in 0..Len(p) :
        /\ k <= Len(q)
        /\ SubSeq(p, 1, k) = SubSeq(q, 1, k)
        /\ \/ k = Len(p) /\ k < Len(q)
           \/ k < Len(p) /\ k < Len(q) /\ p[k + 1] < q[k + 1]

CallSet == {calls[i] : i \in 1..Len(calls)}

\* the largest number of translate frames below a call of the last rendering
RecursionDepth == MaxOf({Len(calls[i]) : i \in 1..Len(calls)})

\* the depth of the tree: the length of the longest path from the root to a node
TreeDepth == MaxOf({Len(p) : p \in Positions(tree, <<>>)})

UnaryToken ==
    [op \in {"Neg", "Not", "Inv"} |->
        IF op = "Neg" THEN <<"-">>
        ELSE IF op = "Not" THEN <<"n", "o", "t", " ">>
        ELSE <<"~">>]

BinaryToken ==
    ("Add" :> <<"+">>) @@ ("Sub" :> <<"-">>) @@ ("Mul" :> <<"*">>) @@ ("Div" :> <<"/">>)
    @@ ("Rem" :> <<"%">>) @@ ("Eq" :> <<"=", "=">>) @@ ("Ne" :> <<"!", "=">>)
    @@ ("Lt" :> <<"<">>) @@ ("Le" :> <<"<", "=">>) @@ ("Gt" :> <<">">>)
    @@ ("Ge" :> <<">", "=">>) @@ ("And" :> <<"a", "n", "d">>) @@ ("Or" :> <<"o", "r">>)
    @@ ("BitOr" :> <<"|">>) @@ ("BitXor" :> <<"^">>) @@ ("BitAnd" :> <<"&">>)
    @@ ("Shl" :> <<"<", "<">>) @@ ("Shr" :> <<">", ">">>)

\* C12: an operator node that renders is its template over the renderings of
\* its children, in left-to-right order: "(" tok v ")" for UnaryOp,
\* "(" l " " tok " " r ")" for BinaryOp and "(" c " ? " t " : " f ")" for
\* CondOp, with the token of the claim's table for each operator tag.
C12_OperatorTemplates ==
    (Rendered /\ out.kind = "Ok") =>
        /\ tree.tag = "UnaryOp" =>
              /\ tree.op \in DOMAIN UnaryToken
              /\ out.text = <<"(">> \o UnaryToken[tree.op] \o translate(tree.v).text \o <<")">>
        /\ tree.tag = "BinaryOp" =>
              /\ tree.op \in DOMAIN BinaryToken
              /\ out.text = <<"(">> \o translate(tree.l).text \o <<" ">>
                            \o BinaryToken[tree.op] \o <<" ">>
                            \o translate(tree.r).text \o <<")">>
        /\ tree.tag = "CondOp" =>
              out.text = <<"(">> \o translate(tree.cond).text \o <<" ", "?", " ">>
                         \o translate(tree.if_true).text \o <<" ", ":", " ">>
                         \o translate(tree.if_false).text \o <<")">>

\* a sum with a nested left operand has been rendered: "((not x) + 3)"
C12_Witness ==
    /\ Rendered
    /\ tree = BinaryOp(UnaryOp("Not", Name(IdX)), "Add", Sibling)
    /\ out = Done(<<"(", "(", "n", "o", "t", " ", "x", ")", " ", "+", " ", "3", ")">>)

RECURSIVE CommaSeparated(_)
\* the texts, each but the first preceded by ", "
CommaSeparated(texts) ==
    IF Len(texts) = 0 THEN <<>>
    ELSE IF Len(texts) = 1 THEN texts[1]
    ELSE CommaSeparated(SubSeq(texts, 1, Len(texts) - 1)) \o <<",", " ">> \o texts[Len(texts)]

\* C13: an access node that renders is the rendering of its base, unchanged
\* and without added parentheses, followed by "." attr for an Attribute, by
\* "." method "(" args joined by ", " ")" for a MethodCall, and by
\* "[" index "]" for a Subscript; so "(-3).to_s", "3.to_s" and "1.75.to_s".
C13_AccessTemplates ==
    (Rendered /\ out.kind = "Ok") =>
        /\ tree.tag = "Attribute" =>
              out.text = translate(tree.value).text \o <<".">> \o tree.attr_name
        /\ tree.tag = "MethodCall" =>
              /\ out.text = translate(tree.value).text \o <<".">> \o tree.method_name \o <<"(">>
                            \o CommaSeparated([i \in 1..Len(tree.args) |->
                                                  translate(tree.args[i]).text])
                            \o <<")">>
              /\ Len(tree.args) = 0 =>
                    SubSeq(out.text, Len(out.text) - 1, Len(out.text)) = <<"(", ")">>
        /\ tree.tag = "Subscript" =>
              out.text = translate(tree.value).text \o <<"[">> \o translate(tree.idx).text \o <<"]">>
        /\ tree = Attribute(UnaryOp("Neg", Sibling), IdToS) =>
              out.text = <<"(", "-", "3", ")", ".", "t", "o", "_", "s">>
        /\ tree = Attribute(Sibling, IdToS) => out.text = <<"3", ".", "t", "o", "_", "s">>
        /\ tree = Attribute(Float([value |-> F64(0, 1023, 50331648, 0)]), IdToS) =>
              out.text = <<"1", ".", "7", "5", ".", "t", "o", "_", "s">>

\* an attribute of a negated integer has been rendered: "(-3).to_s"
C13_Witness ==
    /\ Rendered
    /\ tree = Attribute(UnaryOp("Neg", Sibling), IdToS)
    /\ out.kind = "Ok"

RECURSIVE Scoped(_, _)
\* the segments of path, each followed by "::", then the label
Scoped(path, label) ==
    IF Len(path) = 0 THEN label
    ELSE path[1] \o <<":", ":">> \o Scoped(Tail(path), label)

\* C14: a List that renders is "[" + the renderings of its items, in their
\* order and one for each item, joined by ", " + "]": "[]" when it is empty
\* and no separator around a single item.  An EnumMember is its path
\* segments in their order, then its label, joined by "::": the label alone
\* when the path is empty.
C14_SequenceTemplates ==
    (Rendered /\ out.kind = "Ok") =>
        /\ tree.tag = "List" =>
              /\ out.text = <<"[">>
                            \o CommaSeparated([i \in 1..Len(tree.items) |->
                                                  translate(tree.items[i]).text])
                            \o <<"]">>
              /\ Len(tree.items) = 0 => out.text = <<"[", "]">>
              /\ Len(tree.items) = 1 =>
                    out.text = <<"[">> \o translate(tree.items[1]).text \o <<"]">>
        /\ tree.tag = "EnumMember" =>
              /\ out.text = Scoped(tree.enum_path, tree.label)
              /\ Len(tree.enum_path) = 0 => out.text = tree.label
              /\ tree.enum_path = <<<<"t">>, <<"p">>>> /\ tree.label = <<"h">> =>
                    out.text = <<"t", ":", ":", "p", ":", ":", "h">>

\* a list of an integer and a name has been rendered: "[3, x]"
C14_Witness ==
    /\ Rendered
    /\ tree = List(<<Sibling, Name(IdX)>>)
    /\ out = Done(<<"[", "3", ",", " ", "x", "]">>)

\* every tag of either enumeration has a token, and the operator of the
\* tree's root, if it has one, is a tag of its enumeration
TagsHaveTokens ==
    /\ \A op \in BinaryOps : Len(translate_binary_op(op)) >= 1
    /\ \A op \in UnaryOps : Len(translate_unary_op(op)) >= 1
    /\ (tree # NoResult /\ tree.tag = "BinaryOp") => tree.op \in BinaryOps
    /\ (tree # NoResult /\ tree.tag = "UnaryOp") => tree.op \in UnaryOps

\* C15 as stated: there are exactly 16 binary and exactly 3 unary operator
\* tags, each with a token.
C15_SixteenBinaryTags ==
    /\ Cardinality(BinaryOps) = 16
    /\ Cardinality(UnaryOps) = 3
    /\ TagsHaveTokens

\* C15: the operator tags are fixed enumerations of exactly 18 binary tags
\* (Add Sub Mul Div Rem Eq Ne Lt Le Gt Ge And Or BitOr BitXor BitAnd Shl Shr)
\* and exactly 3 unary tags (Neg Not Inv); translate_binary_op and
\* translate_unary_op map every tag of their enumeration to one token, and
\* no tree carries an operator outside them.
C15_OperatorTags ==
    /\ Cardinality(BinaryOps) = 18
    /\ BinaryOps = DOMAIN BinaryToken
    /\ Cardinality(UnaryOps) = 3
    /\ UnaryOps = DOMAIN UnaryToken
    /\ TagsHaveTokens

\* the eighteenth binary operator has been rendered: "(x >> 3)"
C15_Witness ==
    /\ Rendered
    /\ tree = BinaryOp(Name(IdX), "Shr", Sibling)
    /\ out = Done(<<"(", "x", " ", ">", ">", " ", "3", ")">>)

Letters ==
    {"a", "b", "c", "d", "e", "f", "g", "h", "i", "j", "k", "l", "m",
     "n", "o", "p", "q", "r", "s", "t", "u", "v", "w", "x", "y", "z",
     "A", "B", "C", "D", "E", "F", "G", "H", "I", "J", "K", "L", "M",
     "N", "O", "P", "Q", "R", "S", "T", "U", "V", "W", "X", "Y", "Z", "_"}

\* [A-Za-z_][A-Za-z0-9_]*, and neither of the words true and false
IsIdentifier(s) ==
    /\ Len(s) >= 1
    /\ s[1] \in Letters
    /\ \A i \in 2..Len(s) : s[i] \in Letters \/ is_ascii_digit(s[i])
    /\ s # <<"t", "r", "u", "e">>
    /\ s # <<"f", "a", "l", "s", "e">>

RECURSIVE WellFormed(_)
\* every name of the tree is an identifier and every enum member is scoped
WellFormed(e) ==
    CASE e.tag \in {"Int", "Float", "Str", "Bool"} -> TRUE
      [] e.tag = "Name" -> IsIdentifier(e.name)
      [] e.tag = "EnumMember" ->
            /\ Len(e.enum_path) >= 1
            /\ \A i \in 1..Len(e.enum_path) : IsIdentifier(e.enum_path[i])
            /\ IsIdentifier(e.label)
      [] e.tag = "List" -> \A i \in 1..Len(e.items) : WellFormed(e.items[i])
      [] e.tag = "Attribute" -> WellFormed(e.value) /\ IsIdentifier(e.attr_name)
      [] e.tag = "MethodCall" ->
            /\ WellFormed(e.value)
            /\ IsIdentifier(e.method_name)
            /\ \A i \in 1..Len(e.args) : WellFormed(e.args[i])
      [] e.tag = "UnaryOp" -> WellFormed(e.v)
      [] e.tag = "BinaryOp" -> WellFormed(e.l) /\ WellFormed(e.r)
      [] e.tag = "CondOp" ->
            WellFormed(e.cond) /\ WellFormed(e.if_true) /\ WellFormed(e.if_false)
      [] e.tag = "Subscript" -> WellFormed(e.value) /\ WellFormed(e.idx)

\* the trees a rendered tree is compared with: leaves of every kind, among
\* them names that spell a literal, an enum label or an attribute access;
\* every node over these leaves; and every node over a few nested trees
OtherLeaves ==
    {Sibling, Float([value |-> F64(0, 1023, 50331648, 0)]), Str(<<"a", "b">>), Bool(TRUE),
     Name(IdX), Name(<<"h">>), Name(<<"t", "r", "u", "e">>), Name(<<"3">>),
     Name(<<"3", ".", "t", "o", "_", "s">>),
     EnumMember(<<>>, <<"h">>), EnumMember(<<<<"p">>>>, <<"h">>)}

OtherNested ==
    {Sibling, Name(IdX), UnaryOp("Neg", Sibling), BinaryOp(Sibling, "Add", Sibling),
     Attribute(Sibling, IdToS), List(<<Sibling>>)}

NodesOver(S) ==
    {UnaryOp(op, v) : op \in UnaryOps, v \in S}
    \cup {BinaryOp(l, op, r) : l \in S, op \in NestedBinaryOps, r \in S}
    \cup {CondOp(c, t, f) : c \in {Bool(TRUE), Name(IdX)}, t \in S, f \in S}
    \cup {List(<<>>)}
    \cup {List(<<a>>) : a \in S}
    \cup {List(<<a, b>>) : a \in S, b \in S}
    \cup {Attribute(v, IdToS) : v \in S}
    \cup {MethodCall(v, IdToS, <<>>) : v \in S}
    \cup {MethodCall(v, IdToS, <<a>>) : v \in S, a \in S}
    \cup {Subscript(v, i) : v \in S, i \in S}

OtherTrees == OtherLeaves \cup NodesOver(OtherLeaves) \cup NodesOver(OtherNested)

Renderings == {[text |-> translate(e).text, tree |-> e] : e \in OtherTrees}

Texts == {r.text : r \in Renderings}

\* the trees among OtherTrees that render to a given text
TreesOf == [t \in Texts |-> {r.tree : r \in {q \in Renderings : q.text = t}}]

\* C16 as stated: no tree other than the rendered one renders to the same
\* string.
C16_Injective ==
    (Rendered /\ out.kind = "Ok" /\ out.text \in Texts) =>
        TreesOf[out.text] \subseteq {tree}

\* C16: among trees whose names, labels, path segments, attribute and method
\* names are identifiers other than true and false and whose enum members
\* have a non-empty path, no tree other than the rendered one renders to the
\* same string, whatever the operator nesting, node variant or leaf kind.
C16_InjectiveOnWellFormed ==
    (Rendered /\ out.kind = "Ok" /\ WellFormed(tree) /\ out.text \in Texts) =>
        {e \in TreesOf[out.text] : WellFormed(e)} = {tree}

\* an attribute of a negation has been rendered, "(-3).to_s", and the
\* negation of an attribute is among the trees it is compared with
C16_Witness ==
    /\ Rendered
    /\ out.kind = "Ok"
    /\ tree = Attribute(UnaryOp("Neg", Sibling), IdToS)
    /\ UnaryOp("Neg", Attribute(Sibling, IdToS)) \in OtherTrees
    /\ out.text \in Texts

====
